---- MODULE Spec2Model ----
(***************************************************************************)
(* Model of mitama::unindent (include/unindent/unindent.hpp).              *)
(*                                                                         *)
(* A literal is a std::array of characters ending in the terminator NUL.   *)
(* details::to_unindented and details::to_folded are evaluated at compile  *)
(* time (consteval) when edited_string<Lit, Editor> is instantiated: an    *)
(* evaluation that runs into undefined behaviour is not a constant         *)
(* expression, and the instantiation is ill-formed.                        *)
(***************************************************************************)
EXTENDS Integers, Sequences, FiniteSets, TLC

VARIABLES
  lit,      \* Lit.data: the characters of the literal and the terminator
  editor,   \* the Editor of edited_string<Lit, Editor>
  pc,       \* "literal", "constructed", "ill_formed" or "returned"
  value_,   \* edited_string::value_, the buffer the editor returned
  gen,      \* how many times an output was fed back as the next literal
  result    \* what the last call on the constructed value returned

vars == <<lit, editor, pc, value_, gen, result>>

\* ---------------------------------------------------------------- bounds
MaxLen == 6        \* characters of a literal, specification Spec
MaxGen == 1        \* re-applications of unindent to its own output
MaxOpLen == 3      \* characters of a literal, specification SpecOps
MaxOtherLen == 2   \* characters of the other operand's literal
MaxStrLen == 2     \* characters of a plain string operand
MaxArgs == 2       \* arguments of a format call

\* ------------------------------------------------------------ characters
LF == "\n"
SP == " "
NUL == "NUL"
Chars == {LF, SP, "a"}
OpChars == {LF, SP, "{", "}"}

\* the character codes char_traits::compare orders by
Code(c) ==
  CASE c = NUL -> 0
    [] c = LF -> 10
    [] c = SP -> 32
    [] c = "a" -> 97
    [] c = "{" -> 123
    [] c = "}" -> 125

Strings(alphabet, n) == UNION {[1..k -> alphabet] : k \in 0..n}

\* basic_fixed_string(const CharT (&init)[N + 1]): the characters and '\0'
basic_fixed_string(s) == s \o <<NUL>>

\* basic_string_view(const CharT*): the characters before the first NUL
RECURSIVE c_str(_)
c_str(a) ==
  IF a = <<>> \/ Head(a) = NUL THEN <<>> ELSE <<Head(a)>> \o c_str(Tail(a))

\* ------------------------------------------------------ to_unindented
\* while (str.starts_with('\n')) str.remove_prefix(1);
RECURSIVE strip_leading(_)
strip_leading(str) ==
  IF str # <<>> /\ Head(str) = LF THEN strip_leading(Tail(str)) ELSE str

\* the mutant of strip_trailing: only trailing '\n' is removed
RECURSIVE strip_trailing_returns(_)
strip_trailing_returns(str) ==
  IF str # <<>> /\ str[Len(str)] = LF
    THEN strip_trailing_returns(SubSeq(str, 1, Len(str) - 1))
    ELSE str

\* while (str.ends_with(' ') or str.ends_with('\n')) str.remove_suffix(1);
RECURSIVE strip_trailing(_)
strip_trailing(str) ==
  IF str # <<>> /\ str[Len(str)] \in {SP, LF}
    THEN strip_trailing(SubSeq(str, 1, Len(str) - 1))
    ELSE str

\* the first index of `str` holding '\n', 0 when there is none
RECURSIVE find_lf(_, _)
find_lf(str, i) ==
  IF i > Len(str) THEN 0 ELSE IF str[i] = LF THEN i ELSE find_lf(str, i + 1)

\* str | views::split("\n"sv): no element for an empty str, otherwise the
\* pieces between the separators, a trailing empty piece included
RECURSIVE split(_)
split(str) ==
  IF str = <<>> THEN <<>>
  ELSE LET k == find_lf(str, 1) IN
    IF k = 0 THEN <<str>>
    ELSE IF k = Len(str) THEN <<SubSeq(str, 1, k - 1), <<>>>>
    ELSE <<SubSeq(str, 1, k - 1)>> \o split(SubSeq(str, k + 1, Len(str)))

\* ranges::distance(line | views::take_while([](CharT c) { return c == ' '; }))
RECURSIVE take_while_space(_)
take_while_space(line) ==
  IF line # <<>> /\ Head(line) = SP THEN 1 + take_while_space(Tail(line)) ELSE 0

\* the mutant of not_empty: empty lines are measured too
not_filtered(line) == TRUE

\* views::filter([](auto line) { return !line.empty(); })
not_empty(line) == line # <<>>

\* lines | views::filter(!empty) | views::transform(leading spaces)
indents(lines) ==
  LET kept == SelectSeq(lines, not_empty)
  IN [i \in 1..Len(kept) |-> take_while_space(kept[i])]

\* std::ranges::min(indents). The range must not be empty: on an empty range
\* the call is undefined, so the evaluation is either rejected (ok = FALSE)
\* or goes on with some value.
ranges_min(r, most) ==
  IF r = <<>>
    THEN {[ok |-> FALSE, min |-> 0]} \cup {[ok |-> TRUE, min |-> m] : m \in 0..most}
    ELSE {[ok |-> TRUE,
           min |-> CHOOSE m \in {r[i] : i \in 1..Len(r)} :
                     \A i \in 1..Len(r) : m <= r[i]]}

\* the mutant of remove_indent: one character too few is dropped
remove_indent_short(line, min) ==
  IF Len(line) >= min /\ min >= 1 THEN SubSeq(line, min, Len(line)) ELSE line

\* line.size() >= min ? line | views::drop(min) : line
remove_indent(line, min) ==
  IF Len(line) >= min THEN SubSeq(line, min + 1, Len(line)) ELSE line

\* std::array<CharT, N> buffer = {}; std::size_t index = 0;
new_buffer(N) == [buffer |-> [i \in 1..N |-> NUL], index |-> 0, ok |-> TRUE]

\* buffer[index++] = c; an index outside 0..N-1 ends the constant evaluation
store(st, c) ==
  IF st.ok /\ st.index < Len(st.buffer)
    THEN [st EXCEPT !.buffer[st.index + 1] = c, !.index = st.index + 1]
    ELSE [st EXCEPT !.ok = FALSE]

\* for (auto c : line) buffer[index++] = c;
RECURSIVE store_all(_, _)
store_all(st, line) ==
  IF line = <<>> THEN st ELSE store_all(store(st, Head(line)), Tail(line))

\* for (auto line : lines | views::transform(remove_indent)) { ...; buffer[index++] = '\n'; }
RECURSIVE store_lines(_, _, _)
store_lines(st, lines, min) ==
  IF lines = <<>> THEN st
  ELSE store_lines(store(store_all(st, remove_indent(Head(lines), min)), LF),
                   Tail(lines), min)

\* the mutant of terminate: the terminator is written at index, not index - 1
terminate_after(st) ==
  IF st.ok /\ st.index < Len(st.buffer)
    THEN [st EXCEPT !.buffer[st.index + 1] = NUL]
    ELSE [st EXCEPT !.ok = FALSE]

\* buffer[index - 1] = '\0'; index is a std::size_t, so with index = 0 the
\* subscript is SIZE_MAX, outside the array
terminate(st) ==
  IF st.ok /\ st.index >= 1
    THEN [st EXCEPT !.buffer[st.index] = NUL]
    ELSE [st EXCEPT !.ok = FALSE]

\* the text after the outer trim
trimmed(raw) == strip_trailing(strip_leading(c_str(raw)))

\* details::to_unindented(raw): the outcomes the evaluation can have, each
\* [buffer, index, ok]
to_unindented(raw) ==
  LET lines == split(trimmed(raw))
  IN {LET st == terminate(store_lines(new_buffer(Len(raw)), lines, m.min))
      IN [st EXCEPT !.ok = m.ok /\ st.ok]
      : m \in ranges_min(indents(lines), Len(raw))}

\* ---------------------------------------------------------- to_folded
\* the mutant of flush: a single return is kept as a return
flush_returns(st) ==
  LET out == IF st.returns >= 1 THEN store(st, LF) ELSE st
  IN [out EXCEPT !.returns = 0]

\* auto flush = [&] { ... returns = 0; };
flush(st) ==
  LET out == IF st.returns > 1 THEN store(st, LF)
             ELSE IF st.returns = 1 THEN store(st, SP)
             ELSE st
  IN [out EXCEPT !.returns = 0]

\* for (auto c : to_unindented(raw)) { if (c == '\n') returns++; else { flush(); buffer[index++] = c; } }
RECURSIVE fold_all(_, _)
fold_all(st, arr) ==
  IF arr = <<>> THEN st
  ELSE IF Head(arr) = LF
    THEN fold_all([st EXCEPT !.returns = st.returns + 1], Tail(arr))
    ELSE fold_all(store(flush(st), Head(arr)), Tail(arr))

\* details::to_folded(raw): the outcomes, each [buffer, index, ok]
to_folded(raw) ==
  {LET st == fold_all([buffer |-> [i \in 1..Len(raw) |-> NUL], index |-> 0,
                       ok |-> u.ok, returns |-> 0], u.buffer)
   IN [buffer |-> st.buffer, index |-> st.index, ok |-> u.ok /\ st.ok]
   : u \in to_unindented(raw)}

\* ------------------------------------------------------- edited_string
Editors == {"to_unindented", "to_folded"}

\* Editor(Lit.data)
Editor(e, raw) == IF e = "to_unindented" THEN to_unindented(raw) ELSE to_folded(raw)

\* edited_string::value(): basic_string_view(value_.data())
value == c_str(value_)

None == [kind |-> "none"]

Init ==
  /\ lit \in {basic_fixed_string(s) : s \in Strings(Chars, MaxLen)}
  /\ editor \in Editors
  /\ pc = "literal"
  /\ value_ = <<>>
  /\ gen = 0
  /\ result = None

\* static constexpr decltype(Lit.data) value_ = Editor(Lit.data);
Instantiate(e) ==
  /\ pc = "literal"
  /\ editor = e
  /\ \E r \in Editor(e, lit) :
       /\ pc' = IF r.ok THEN "constructed" ELSE "ill_formed"
       /\ value_' = IF r.ok THEN r.buffer ELSE <<>>
  /\ UNCHANGED <<lit, editor, gen, result>>

\* unindented<Lit>
unindented == Instantiate("to_unindented")

\* folded<Lit>
folded == Instantiate("to_folded")

\* the unindented text written as the literal of another unindented<Lit>
Reapply ==
  /\ pc = "constructed"
  /\ editor = "to_unindented"
  /\ gen < MaxGen
  /\ lit' = basic_fixed_string(value)
  /\ gen' = gen + 1
  /\ pc' = "literal"
  /\ value_' = <<>>
  /\ UNCHANGED <<editor, result>>

Next == unindented \/ folded \/ Reapply

Spec == Init /\ [][Next]_vars

\* ------------------------------------------- operations on the value
\* basic_string_view::compare: traits::compare over the common length,
\* then the lengths; -1, 0 or 1
RECURSIVE sv_compare(_, _)
sv_compare(a, b) ==
  IF a = <<>> /\ b = <<>> THEN 0
  ELSE IF a = <<>> THEN -1
  ELSE IF b = <<>> THEN 1
  ELSE IF Code(Head(a)) < Code(Head(b)) THEN -1
  ELSE IF Code(Head(a)) > Code(Head(b)) THEN 1
  ELSE sv_compare(Tail(a), Tail(b))

Bool(b) == IF b THEN "true" ELSE "false"

Ops == {"<=>", "!=", "==", "<", ">"}

\* the operators of basic_string_view the comparison operators forward to
sv_op(op, a, b) ==
  CASE op = "<=>" -> (IF sv_compare(a, b) < 0 THEN "less"
                      ELSE IF sv_compare(a, b) > 0 THEN "greater" ELSE "equal")
    [] op = "!=" -> Bool(~(Len(a) = Len(b) /\ sv_compare(a, b) = 0))
    [] op = "==" -> Bool(Len(a) = Len(b) /\ sv_compare(a, b) = 0)
    [] op = "<" -> Bool(sv_compare(a, b) < 0)
    [] op = ">" -> Bool(sv_compare(a, b) > 0)

\* the mutant of sv_edited: operator> answers with lhs < value()
sv_edited_swapped(op, lhs, self) ==
  IF op = ">" THEN sv_op("<", lhs, self) ELSE sv_op(op, lhs, self)

\* friend operator op(basic_string_view lhs, const Self&): lhs op Self::value()
sv_edited(op, lhs, self) == sv_op(op, lhs, self)

\* friend operator op(const Self&, basic_string_view rhs): Self::value() op rhs
edited_sv(op, self, rhs) == sv_op(op, self, rhs)

\* operator op(S1&&, S2&&): S1::value() op S2::value()
edited_edited(op, s1, s2) == sv_op(op, s1, s2)

Compared(op, a, b, out, twin) ==
  [kind |-> "compare", op |-> op, a |-> a, b |-> b, out |-> out, twin |-> twin]

\* a call whose result the caller then holds
Call(r) ==
  /\ pc = "constructed"
  /\ pc' = "returned"
  /\ result' = r
  /\ UNCHANGED <<lit, editor, value_, gen>>

\* s op edited, s a plain string
compare_sv_edited ==
  /\ pc = "constructed"
  /\ \E op \in Ops, s \in Strings(OpChars, MaxStrLen) :
    Call(Compared(op, s, value, sv_edited(op, s, value), FALSE))

\* edited op s, s a plain string
compare_edited_sv ==
  /\ pc = "constructed"
  /\ \E op \in Ops, s \in Strings(OpChars, MaxStrLen) :
    Call(Compared(op, value, s, edited_sv(op, value, s), FALSE))

\* edited op other, other another edited_string (of any literal and editor,
\* this literal under the other editor included)
compare_edited_edited ==
  /\ pc = "constructed"
  /\ \E op \in Ops, e \in Editors,
        s \in {basic_fixed_string(x) : x \in Strings(OpChars, MaxOtherLen)} \cup {lit} :
       \E other \in Editor(e, s) :
         /\ other.ok
         /\ Call(Compared(op, value, c_str(other.buffer),
                          edited_edited(op, value, c_str(other.buffer)),
                          s = lit /\ e # editor))

\* value() and to_str()
value_call == Call([kind |-> "value", out |-> value])
to_str == Call([kind |-> "to_str", out |-> value])

RECURSIVE reversed(_)
reversed(s) == IF s = <<>> THEN <<>> ELSE reversed(Tail(s)) \o <<Head(s)>>

\* begin()..end() and cbegin()..cend(): the characters of value()
iterate == Call([kind |-> "iterate", out |-> value])

\* rbegin()..rend() and crbegin()..crend(): the characters of value(), last first
reverse_iterate == Call([kind |-> "reverse_iterate", out |-> reversed(value)])

\* std::format(fmt, args...): "{}" takes the next argument, "{{" and "}}" are
\* braces, any other brace or a "{}" without an argument left is an error;
\* arguments left over are ignored
RECURSIVE std_format(_, _)
std_format(fmt, args) ==
  LET error == [ok |-> FALSE, out |-> <<>>]
      then(head, rest, left) ==
        LET r == std_format(rest, left)
        IN IF r.ok THEN [ok |-> TRUE, out |-> head \o r.out] ELSE error
  IN IF fmt = <<>> THEN [ok |-> TRUE, out |-> <<>>]
     ELSE IF Head(fmt) \notin {"{", "}"} THEN then(<<Head(fmt)>>, Tail(fmt), args)
     ELSE IF Len(fmt) = 1 THEN error
     ELSE IF fmt[1] = fmt[2] THEN then(<<fmt[1]>>, Tail(Tail(fmt)), args)
     ELSE IF fmt[1] = "{" /\ fmt[2] = "}" /\ args # <<>>
       THEN then(Head(args), Tail(Tail(fmt)), Tail(args))
     ELSE error

FormatArgs == UNION {[1..k -> {<<"a">>, <<"{">>}] : k \in 0..MaxArgs}

Formatted(args, r) == [kind |-> "format", args |-> args, ok |-> r.ok, out |-> r.out]

\* the mutant of format: the formatted text is written over value_
format_in_place ==
  /\ pc = "constructed"
  /\ \E args \in FormatArgs :
    LET r == std_format(value, args)
    IN /\ pc' = "returned"
       /\ result' = Formatted(args, r)
       /\ value_' = IF r.ok THEN basic_fixed_string(r.out) ELSE value_
       /\ UNCHANGED <<lit, editor, gen>>

\* format(args...): std::format(value(), args...), its error propagated
format ==
  /\ pc = "constructed"
  /\ \E args \in FormatArgs : Call(Formatted(args, std_format(value, args)))

\* the caller drops the returned temporary
discard ==
  /\ pc = "returned"
  /\ pc' = "constructed"
  /\ result' = None
  /\ UNCHANGED <<lit, editor, value_, gen>>

InitOps ==
  /\ lit \in {basic_fixed_string(s) : s \in Strings(OpChars, MaxOpLen)}
  /\ editor \in Editors
  /\ pc = "literal"
  /\ value_ = <<>>
  /\ gen = 0
  /\ result = None

NextOps ==
  \/ unindented
  \/ folded
  \/ compare_sv_edited
  \/ compare_edited_sv
  \/ compare_edited_edited
  \/ value_call
  \/ to_str
  \/ iterate
  \/ reverse_iterate
  \/ format
  \/ discard

SpecOps == InitOps /\ [][NextOps]_vars

\* ------------------------------------------------ vocabulary of the claims
\* the raw text T of the literal
Text == c_str(lit)

\* outer trim: leading '\n' removed, then trailing ' ' and '\n' removed
OuterTrim(T) ==
  LET first == CHOOSE i \in 1..(Len(T) + 1) :
                 /\ \A j \in 1..(i - 1) : T[j] = LF
                 /\ (i = Len(T) + 1 \/ T[i] # LF)
      last == CHOOSE j \in (first - 1)..Len(T) :
                /\ \A k \in (j + 1)..Len(T) : T[k] \in {SP, LF}
                /\ (j = first - 1 \/ T[j] \notin {SP, LF})
  IN SubSeq(T, first, last)

LineBreaks(s) == {i \in 1..Len(s) : s[i] = LF}
LineCount(s) == Cardinality(LineBreaks(s)) + 1
NthBreak(s, n) ==
  CHOOSE i \in LineBreaks(s) : Cardinality({j \in LineBreaks(s) : j <= i}) = n

\* the k-th line of s, k in 1..LineCount(s)
Line(s, k) ==
  SubSeq(s, IF k = 1 THEN 1 ELSE NthBreak(s, k - 1) + 1,
            IF k = LineCount(s) THEN Len(s) ELSE NthBreak(s, k) - 1)

IndentWidth(line) ==
  Cardinality({i \in 1..Len(line) : \A j \in 1..i : line[j] = SP})

NonEmptyLines(s) == {k \in 1..LineCount(s) : Line(s, k) # <<>>}

\* the minimum count of leading spaces over the non-empty lines of s
MinimumIndent(s) ==
  CHOOSE m \in {IndentWidth(Line(s, k)) : k \in NonEmptyLines(s)} :
    \A k \in NonEmptyLines(s) : m <= IndentWidth(Line(s, k))

Drop(line, n) == SubSeq(line, n + 1, Len(line))

Unindented == pc = "constructed" /\ editor = "to_unindented"
Finished == pc \in {"constructed", "ill_formed"}

\* ----------------------------------------------------------------- C1
\* C1: for a text with at least one non-blank line after the outer trim,
\* unindent succeeds, its output has as many lines as the trimmed text, each
\* non-blank output line is the input line with exactly its first
\* MinimumIndent characters dropped, relative indentation of the non-blank
\* lines is kept, and no separator follows the last line.
C1_UnindentDropsMinimumIndent ==
  (Finished /\ editor = "to_unindented" /\ OuterTrim(Text) # <<>>) =>
    LET In == OuterTrim(Text)
        m == MinimumIndent(In)
        out == {k \in 1..LineCount(In) : Line(value, k) # <<>>}
    IN /\ pc = "constructed"
       /\ LineCount(value) = LineCount(In)
       /\ \A k \in out :
            /\ Len(Line(In, k)) >= m
            /\ Line(value, k) = Drop(Line(In, k), m)
       /\ \A j, k \in out :
            IndentWidth(Line(value, j)) - IndentWidth(Line(value, k))
              = IndentWidth(Line(In, j)) - IndentWidth(Line(In, k))
       /\ value # <<>> /\ value[Len(value)] # LF

C1_Witness ==
  /\ Unindented
  /\ LineCount(OuterTrim(Text)) >= 2
  /\ MinimumIndent(OuterTrim(Text)) >= 1
  /\ \E j, k \in NonEmptyLines(value) :
       /\ IndentWidth(Line(value, j)) = 0
       /\ IndentWidth(Line(value, k)) >= 1
       /\ Len(Line(value, k)) > IndentWidth(Line(value, k))

\* ----------------------------------------------------------------- C2
\* C2: when the trimmed text has empty lines, they do not count for
\* MinimumIndent (every non-empty line loses exactly the minimum taken over
\* the non-empty lines) and each stays an empty line at its position.
C2_EmptyLinesKeptAndNotMeasured ==
  (Unindented /\ OuterTrim(Text) # <<>>
     /\ \E k \in 1..LineCount(OuterTrim(Text)) : Line(OuterTrim(Text), k) = <<>>) =>
    LET In == OuterTrim(Text)
        m == MinimumIndent(In)
    IN /\ LineCount(value) = LineCount(In)
       /\ \A k \in 1..LineCount(In) :
            IF Line(In, k) = <<>>
              THEN Line(value, k) = <<>>
              ELSE Line(In, k) = [i \in 1..m |-> SP] \o Line(value, k)

C2_Witness ==
  /\ Unindented
  /\ MinimumIndent(OuterTrim(Text)) >= 1
  /\ \E k \in 2..LineCount(OuterTrim(Text)) :
       /\ Line(OuterTrim(Text), k) = <<>> /\ Line(value, k) = <<>>
       /\ Line(value, k - 1) # <<>>

\* ----------------------------------------------------------------- C3
\* what position i of the unindented text U becomes in the folded text
FoldedAt(U, i) ==
  IF U[i] # LF THEN <<U[i]>>
  ELSE IF i > 1 /\ U[i - 1] = LF THEN <<>>
  ELSE IF \A j \in i..Len(U) : U[j] = LF THEN <<>>
  ELSE IF U[i + 1] = LF THEN <<LF>>
  ELSE <<SP>>

RECURSIVE FoldedFrom(_, _)
FoldedFrom(U, i) ==
  IF i > Len(U) THEN <<>> ELSE FoldedAt(U, i) \o FoldedFrom(U, i + 1)

\* C3: fold(T) is unindent(T) with every other character copied in order,
\* every maximal run of one '\n' replaced by a space, every longer run by
\* one '\n', and nothing emitted for line breaks after the last character.
C3_FoldCollapsesRuns ==
  (Finished /\ editor = "to_folded") =>
    /\ pc = "constructed" <=> \E u \in to_unindented(lit) : u.ok
    /\ pc = "constructed" =>
         \A u \in to_unindented(lit) : value = FoldedFrom(c_str(u.buffer), 1)

C3_Witness ==
  /\ pc = "constructed" /\ editor = "to_folded"
  /\ \E u \in to_unindented(lit) :
       LET U == c_str(u.buffer)
       IN /\ \E i \in 2..(Len(U) - 1) :
               U[i] = LF /\ U[i - 1] # LF /\ U[i + 1] # LF
          /\ \E i \in 2..(Len(U) - 1) : U[i] = LF /\ U[i + 1] = LF
  /\ \E i, j \in 1..Len(value) : value[i] = SP /\ value[j] = LF

\* ----------------------------------------------------------------- C4
\* C4: unindent is idempotent: unindent applied to its own output succeeds
\* and returns that output.
C4_Idempotent ==
  (Finished /\ editor = "to_unindented" /\ gen >= 1) =>
    pc = "constructed" /\ value = Text

\* ----------------------------------------------------------------- C5
\* C5: among the non-empty lines of unindent(T) at least one has no leading
\* space.
C5_SomeLineAtColumnZero ==
  Unindented => \E k \in NonEmptyLines(value) : IndentWidth(Line(value, k)) = 0

\* ----------------------------------------------------------------- C6
\* C6: the content of unindent(T) does not begin with '\n' and does not end
\* with ' ' or '\n'.
C6_NoOuterArtifacts ==
  (Unindented /\ value # <<>>) =>
    value[1] # LF /\ value[Len(value)] \notin {SP, LF}

\* ----------------------------------------------------------------- C7
\* C7: both transformations complete on every text, and on a text with no
\* non-blank line after the outer trim the result is the trimmed text.
C7_Total ==
  /\ pc # "ill_formed"
  /\ (pc = "constructed" /\ OuterTrim(Text) = <<>>) => value = <<>>

\* ----------------------------------------------------------------- C8
\* C8 as stated: a single-line text comes back as the outer-trimmed text,
\* its leading spaces kept.
C8_SingleLineAsIs ==
  (Unindented /\ LineBreaks(OuterTrim(Text)) = {}) => value = OuterTrim(Text)

\* C8 amended: a text whose outer-trimmed form is one non-empty line comes
\* back as that line without its leading spaces (MinimumIndent is the line's
\* own IndentWidth); it is returned as-is only when it has none.
C8_SingleLineLosesItsIndent ==
  (Finished /\ editor = "to_unindented"
     /\ OuterTrim(Text) # <<>> /\ LineBreaks(OuterTrim(Text)) = {}) =>
    /\ pc = "constructed"
    /\ value = Drop(OuterTrim(Text), IndentWidth(OuterTrim(Text)))
    /\ (value = OuterTrim(Text) <=> IndentWidth(OuterTrim(Text)) = 0)

C8_Witness ==
  /\ Unindented
  /\ LineBreaks(OuterTrim(Text)) = {}
  /\ IndentWidth(OuterTrim(Text)) >= 1
  /\ Len(Text) > Len(OuterTrim(Text))

\* ----------------------------------------------------------------- C9
\* a comes before b in the lexicographic order of the character codes
LexLess(a, b) ==
  \E k \in 0..Len(a) :
    /\ k <= Len(b)
    /\ \A i \in 1..k : a[i] = b[i]
    /\ \/ k = Len(a) /\ k < Len(b)
       \/ k < Len(a) /\ k < Len(b) /\ Code(a[k + 1]) < Code(b[k + 1])

\* C9: every comparison, between two transformed values or a transformed
\* value and a plain string in either order, answers by the contents alone:
\* == iff they are character-equal, != its negation, <, > and <=> their
\* lexicographic order; unindented(T) and folded(T) are unequal whenever
\* unindent(T) contains a line break.
C9_ComparisonByContent ==
  (pc = "returned" /\ result.kind = "compare") =>
    LET a == result.a
        b == result.b
    IN /\ a = value \/ b = value
       /\ result.op = "==" => result.out = Bool(a = b)
       /\ result.op = "!=" => result.out = Bool(a # b)
       /\ result.op = "<" => result.out = Bool(LexLess(a, b))
       /\ result.op = ">" => result.out = Bool(LexLess(b, a))
       /\ result.op = "<=>" =>
            result.out = IF a = b THEN "equal"
                         ELSE IF LexLess(a, b) THEN "less" ELSE "greater"
       /\ (result.twin
             /\ \E i \in 1..Len(a) :
                  (IF editor = "to_unindented" THEN a ELSE b)[i] = LF) =>
            /\ a # b
            /\ result.op = "==" => result.out = "false"
            /\ result.op = "<=>" => result.out # "equal"

C9_Witness ==
  /\ pc = "returned" /\ result.kind = "compare"
  /\ result.op = ">" /\ result.b = value /\ result.a # value
  /\ result.out = "true"
  /\ Len(result.a) < Len(result.b)

\* ---------------------------------------------------------------- C10
\* C10: after any sequence of calls value_ is still what the editor computed
\* from the literal at construction, and format(args) returns what the
\* formatting service returns for (value(), args), its error included.
C10_ImmutableValue ==
  (pc \in {"constructed", "returned"}) =>
    /\ \E r \in Editor(editor, lit) : r.ok /\ value_ = r.buffer
    /\ (pc = "returned" /\ result.kind = "format") =>
         /\ result.ok = std_format(value, result.args).ok
         /\ result.out = std_format(value, result.args).out
    /\ (pc = "returned" /\ result.kind \in {"value", "to_str", "iterate"}) =>
         result.out = value

C10_Witness ==
  /\ pc = "returned"
  /\ result.kind = "format"
  /\ ~result.ok
  /\ result.args # <<>>
  /\ value # <<>>
  /\ \E r \in Editor(editor, lit) : r.ok /\ value_ = r.buffer

\* ---------------------------------------------------------------- C11
\* C11: for a literal of storage size N with at least one non-blank line
\* after the outer trim, every write of to_unindented and to_folded is at an
\* index in 0..N-1 (the evaluation is not cut short and index never passes
\* N), to_folded emits no more characters than the N elements it scans, and
\* the returned buffer of N elements holds '\0' right after the content, so
\* value() reads exactly the characters written before the terminator.
C11_WritesInRangeAndTerminated ==
  (Finished /\ OuterTrim(Text) # <<>>) =>
    LET N == Len(lit)
    IN /\ pc = "constructed"
       /\ Len(value_) = N
       /\ Len(value) < N
       /\ value_[Len(value) + 1] = NUL
       /\ \A i \in 1..Len(value) : value_[i] = value[i] /\ value[i] # NUL
       /\ \A u \in to_unindented(lit) :
            /\ u.ok
            /\ u.index \in 1..N
            /\ Len(c_str(u.buffer)) = u.index - 1
            /\ u.buffer[u.index] = NUL
            /\ editor = "to_unindented" => value_ = u.buffer
            /\ editor = "to_folded" =>
                 \A f \in to_folded(lit) :
                   /\ f.ok
                   /\ f.index \in 1..N
                   /\ f.index = Len(value) + (N - Len(c_str(u.buffer)))
                   /\ Len(value) <= Len(c_str(u.buffer))
                   /\ value_ = f.buffer

C11_Witness ==
  /\ pc = "constructed"
  /\ editor = "to_folded"
  /\ OuterTrim(Text) # <<>>
  /\ \E u \in to_unindented(lit) : u.ok /\ u.index = Len(lit)
  /\ \E f \in to_folded(lit) : f.ok /\ f.index = Len(lit) /\ value_ = f.buffer
  /\ \E i \in 1..Len(value) : value[i] = SP

====
